---- MODULE Spec2Model ----
(***************************************************************************)
(* Bitcask visualizer (script.js): an append-only log of LogEntry records  *)
(* ("disk") and a keyDir Map from key to KeyDirEntry ("memory"), driven by *)
(* the three form handlers put / get / delete.                             *)
(*                                                                         *)
(* JavaScript strings are sequences of one-character strings, so that      *)
(* String.prototype.trim and JSON.stringify are computed, not assumed.     *)
(* JavaScript values are tagged records (string, number or null).          *)
(* Array positions are the 0-based positions of the code; the TLA+         *)
(* sequence that holds the array is 1-based, see LogAt.                    *)
(***************************************************************************)
EXTENDS Integers, Sequences, FiniteSets, TLC

\* ---------------------------------------------------------------- bounds
\* the store accepts put/delete while the log holds fewer records than this
MaxLog == 3
\* Date readings are the instants 0..MaxTime
MaxTime == 1
\* number of operations already applied to the store before the two
\* concurrent callers of SpecConc arrive
MaxPrefix == 2

\* ------------------------------------------------------- JavaScript values
Str(chars) == [type |-> "string", chars |-> chars]

Num(n) == [type |-> "number", n |-> n]

Null == [type |-> "null"]

\* the exception raised by reading a property of undefined
TypeError == [type |-> "TypeError"]

\* the payload delete() writes into a tombstone record
DELETE_TOMBSTONE ==
  <<"D", "E", "L", "E", "T", "E", "_", "T", "O", "M", "B", "S", "T", "O", "N", "E">>

\* the only file the visualizer knows
ActiveFile == "active.data"

\* texts a user types into the key fields and into the value field
KeyTexts == { <<>>, <<" ">>, <<"x">>, <<" ", "x", " ">>, <<"y">> }

ValueTexts == { <<>>, <<" ">>, <<"\"", " ">>, DELETE_TOMBSTONE }

\* instants new Date() can read; the wall clock is not monotonic
Instants == 0..MaxTime

\* --------------------------------------------------------- String helpers
IsWhiteSpace(c) == c \in {" ", "\t", "\n", "\r"}

RECURSIVE TrimStart(_)
TrimStart(s) ==
  IF s = <<>> THEN <<>>
  ELSE IF IsWhiteSpace(Head(s)) THEN TrimStart(Tail(s))
  ELSE s

RECURSIVE TrimEnd(_)
TrimEnd(s) ==
  IF s = <<>> THEN <<>>
  ELSE IF IsWhiteSpace(s[Len(s)]) THEN TrimEnd(SubSeq(s, 1, Len(s) - 1))
  ELSE s

\* String.prototype.trim
Trim(s) == TrimEnd(TrimStart(s))

\* number of characters JSON.stringify emits for one character of a string
JsonCharLength(c) ==
  IF c \in {"\"", "\\", "\t", "\n", "\r"} THEN 2 ELSE 1

RECURSIVE JsonCharsLength(_)
JsonCharsLength(s) ==
  IF s = <<>> THEN 0 ELSE JsonCharLength(Head(s)) + JsonCharsLength(Tail(s))

\* JSON.stringify(value).length
RECURSIVE DecimalDigits(_)
DecimalDigits(n) == IF n < 10 THEN 1 ELSE 1 + DecimalDigits(n \div 10)

\* JSON.stringify(value).length for a string, a natural number, null
JsonStringifyLength(value) ==
  IF value.type = "string" THEN 2 + JsonCharsLength(value.chars)
  ELSE IF value.type = "number" THEN DecimalDigits(value.n)
  ELSE 4

\* --------------------------------------------------------- data structures
\* mutant: a record whose value is the sentinel text counts as a tombstone
LogEntrySentinelFlag(key, value, isTombstone, now) ==
  [timestamp |-> now, key |-> key, value |-> value,
   isTombstone |-> isTombstone \/ value = Str(DELETE_TOMBSTONE)]

LogEntry(key, value, isTombstone, now) ==
  [timestamp |-> now, key |-> key, value |-> value, isTombstone |-> isTombstone]

KeyDirEntry(fileId, valueSize, valuePos, timestamp) ==
  [fileId |-> fileId, valueSize |-> valueSize, valuePos |-> valuePos,
   timestamp |-> timestamp]

\* mutant: the push compacts the log, dropping older records of the key
LogPushCompacting(l, entry) ==
  Append(SelectSeq(l, LAMBDA r : r.key # entry.key), entry)

\* Array.prototype.push
LogPush(l, entry) == Append(l, entry)

\* mutant: the offset is the length itself, one past the pushed record
OffsetPastEnd(l) == Len(l)

\* mutant: the offset is taken as if the push had not happened yet
OffsetBeforePush(l) == Len(l) - 2

\* this.log.length - 1 after the push
Offset(l) == Len(l) - 1

\* this.log[pos] for a position inside the array
LogAt(l, pos) == l[pos + 1]

InRange(l, pos) == pos >= 0 /\ pos < Len(l)

\* Map.prototype.has / set / delete; the Map is a function on its key set
MapHas(m, key) == key \in DOMAIN m

\* mutant: set keeps an entry the key already has
MapSetIfAbsent(m, key, entry) ==
  [k \in (DOMAIN m) \cup {key} |->
     IF k \in DOMAIN m THEN m[k] ELSE entry]

\* mutant: set replaces the whole Map by the one entry
MapSetOnly(m, key, entry) == [k \in {key} |-> entry]

MapSet(m, key, entry) ==
  [k \in (DOMAIN m) \cup {key} |-> IF k = key THEN entry ELSE m[k]]

\* mutant: delete leaves the Map as it is
MapDeleteNoop(m, key) == m

\* mutant: delete clears the Map
MapDeleteClear(m, key) == [k \in {} |-> m[k]]

MapDelete(m, key) == [k \in (DOMAIN m) \ {key} |-> m[k]]

EmptyMap == [k \in {} |-> Null]

\* mutant: get answers the oldest record of the key instead of following
\* the keyDir position
StoreGetOldest(l, m, key) ==
  IF ~(key \in DOMAIN m) THEN Null
  ELSE LET ps == { p \in 1..Len(l) : l[p].key = key } IN
       IF ps = {} THEN TypeError
       ELSE l[CHOOSE p \in ps : \A q \in ps : p <= q].value

\* mutant: get answers null when the record's value is the sentinel text
StoreGetSentinelNull(l, m, key) ==
  IF ~(key \in DOMAIN m) THEN Null
  ELSE LET meta == m[key] IN
       IF ~(meta.valuePos >= 0 /\ meta.valuePos < Len(l)) THEN TypeError
       ELSE IF l[meta.valuePos + 1].value = Str(DELETE_TOMBSTONE) THEN Null
       ELSE l[meta.valuePos + 1].value

\* BitcaskStore.get: null, the stored value, or the TypeError of reading
\* .value of undefined when the position is outside the array
StoreGet(l, m, key) ==
  IF ~MapHas(m, key) THEN Null
  ELSE LET meta == m[key] IN
       IF InRange(l, meta.valuePos) THEN LogAt(l, meta.valuePos).value
       ELSE TypeError

\* ------------------------------------------------------------------ state
VARIABLES
  log,        \* store.log
  keyDir,     \* store.keyDir
  pc,         \* "idle", or the statement a running put/delete has reached
  frame,      \* locals of the running put/delete
  getResult,  \* what the result box shows
  hist,       \* the put/delete calls made so far, in call order
  callers     \* per concurrent caller: where it is, and its turn of completion

vars == <<log, keyDir, pc, frame, getResult, hist, callers>>

NoFrame == [method |-> "none"]

Hidden == [shown |-> "hidden"]

\* the two concurrent callers of SpecConc and what each one puts
Callers == {1, 2}

CallerKey == <<"x">>

CallerValue(c) == Num(c)

NoCallers == [c \in {} |-> [at |-> "ready", turn |-> 0]]

\* no concurrent caller has started (none exists in Spec)
CallersReady == \A c \in DOMAIN callers : callers[c].at = "ready"

Init ==
  /\ log = <<>>
  /\ keyDir = EmptyMap
  /\ pc = "idle"
  /\ frame = NoFrame
  /\ getResult = Hidden
  /\ hist = <<>>
  /\ callers = NoCallers

\* ------------------------------------------------------------- operations
\* put, statements 1 and 2: build the entry, push it, take the offset
PutAppend(key, value, now) ==
  LET entry == LogEntry(key, value, FALSE, now)
      pushed == LogPush(log, entry)
  IN /\ pc = "idle"
     /\ log' = pushed
     /\ frame' = [method |-> "put", key |-> key, entry |-> entry,
                  offset |-> Offset(pushed)]
     /\ pc' = "putSet"
     /\ hist' = Append(hist, [op |-> "put", key |-> key, value |-> value])
     /\ UNCHANGED keyDir

\* mutant: the KeyDirEntry is stamped with a new reading of the clock
PutSetFreshStamp ==
  \E now \in Instants :
    /\ pc = "putSet"
    /\ keyDir' = MapSet(keyDir, frame.key,
                        KeyDirEntry(ActiveFile,
                                    JsonStringifyLength(frame.entry.value),
                                    frame.offset,
                                    now))
    /\ pc' = "idle"
    /\ frame' = NoFrame
    /\ UNCHANGED <<log, hist>>

\* put, statement 3: build the KeyDirEntry and set it
PutSet ==
  /\ pc = "putSet"
  /\ keyDir' = MapSet(keyDir, frame.key,
                      KeyDirEntry(ActiveFile,
                                  JsonStringifyLength(frame.entry.value),
                                  frame.offset,
                                  frame.entry.timestamp))
  /\ pc' = "idle"
  /\ frame' = NoFrame
  /\ UNCHANGED <<log, hist>>

\* mutant: the tombstone is built without the isTombstone argument
DeleteAppendNoFlag(key, now) ==
  LET entry == LogEntry(key, Str(DELETE_TOMBSTONE), FALSE, now)
  IN /\ pc = "idle"
     /\ log' = LogPush(log, entry)
     /\ frame' = [method |-> "delete", key |-> key]
     /\ pc' = "deleteRemove"
     /\ hist' = Append(hist, [op |-> "delete", key |-> key])
     /\ UNCHANGED keyDir

\* mutant: no tombstone is pushed for a key that has no keyDir entry
DeleteAppendIfPresent(key, now) ==
  LET entry == LogEntry(key, Str(DELETE_TOMBSTONE), TRUE, now)
  IN /\ pc = "idle"
     /\ log' = IF key \in DOMAIN keyDir THEN LogPush(log, entry) ELSE log
     /\ frame' = [method |-> "delete", key |-> key]
     /\ pc' = "deleteRemove"
     /\ hist' = Append(hist, [op |-> "delete", key |-> key])
     /\ UNCHANGED keyDir

\* delete, statement 1: push the tombstone
DeleteAppend(key, now) ==
  LET entry == LogEntry(key, Str(DELETE_TOMBSTONE), TRUE, now)
  IN /\ pc = "idle"
     /\ log' = LogPush(log, entry)
     /\ frame' = [method |-> "delete", key |-> key]
     /\ pc' = "deleteRemove"
     /\ hist' = Append(hist, [op |-> "delete", key |-> key])
     /\ UNCHANGED keyDir

\* delete, statement 2: remove the key from the keyDir
DeleteRemove ==
  /\ pc = "deleteRemove"
  /\ keyDir' = MapDelete(keyDir, frame.key)
  /\ pc' = "idle"
  /\ frame' = NoFrame
  /\ UNCHANGED <<log, hist>>

\* ---------------------------------------------------------- form handlers
\* formPut submit: trims both fields, returns on an empty one, else put
FormPutSubmit ==
  \E keyText \in KeyTexts, valueText \in ValueTexts, now \in Instants :
    LET key == Trim(keyText)
        val == Trim(valueText)
    IN /\ Len(log) < MaxLog
       /\ CallersReady
       /\ key # <<>>
       /\ val # <<>>
       /\ PutAppend(key, Str(val), now)
       /\ UNCHANGED <<getResult, callers>>

\* the rest of formPut submit after store.put reached the keyDir update
FormPutFinish ==
  /\ frame.method = "put"
  /\ CallersReady
  /\ PutSet
  /\ UNCHANGED <<getResult, callers>>

\* mutant: a get that finds the key takes its entry out of the keyDir
FormGetSubmitTake ==
  \E keyText \in KeyTexts :
    LET key == Trim(keyText)
        val == StoreGet(log, keyDir, key)
    IN /\ pc = "idle"
       /\ CallersReady
       /\ key # <<>>
       /\ val # TypeError
       /\ getResult' = IF val = Null
                       THEN [shown |-> "error", key |-> key]
                       ELSE [shown |-> "value", value |-> val]
       /\ keyDir' = MapDelete(keyDir, key)
       /\ UNCHANGED <<log, pc, frame, hist, callers>>

\* formGet submit: returns on an empty key, else shows the result
FormGetSubmit ==
  \E keyText \in KeyTexts :
    LET key == Trim(keyText)
        val == StoreGet(log, keyDir, key)
    IN /\ pc = "idle"
       /\ CallersReady
       /\ key # <<>>
       /\ val # TypeError
       /\ getResult' = IF val = Null
                       THEN [shown |-> "error", key |-> key]
                       ELSE [shown |-> "value", value |-> val]
       /\ UNCHANGED <<log, keyDir, pc, frame, hist, callers>>

\* formDelete submit: returns on an empty key, else delete
FormDeleteSubmit ==
  \E keyText \in KeyTexts, now \in Instants :
    LET key == Trim(keyText)
    IN /\ Len(log) < MaxLog
       /\ CallersReady
       /\ key # <<>>
       /\ DeleteAppend(key, now)
       /\ UNCHANGED <<getResult, callers>>

FormDeleteFinish ==
  /\ frame.method = "delete"
  /\ CallersReady
  /\ DeleteRemove
  /\ UNCHANGED <<getResult, callers>>

Next ==
  \/ FormPutSubmit
  \/ FormPutFinish
  \/ FormGetSubmit
  \/ FormDeleteSubmit
  \/ FormDeleteFinish

Spec == Init /\ [][Next]_vars

\* ------------------------------------------------------ concurrent callers
\* Handlers run to completion on one thread: a caller's put starts only when
\* no put or delete is running (pc = "idle") and is finished by that caller.
CallerBegin(c) ==
  \E now \in Instants :
    /\ callers[c].at = "ready"
    /\ PutAppend(CallerKey, CallerValue(c), now)
    /\ callers' = [callers EXCEPT ![c].at = "running"]
    /\ UNCHANGED getResult

CallerFinish(c) ==
  /\ callers[c].at = "running"
  /\ PutSet
  /\ callers' = [callers EXCEPT
                   ![c] = [at |-> "done",
                           turn |-> 1 + Cardinality({d \in Callers :
                                                      callers[d].at = "done"})]]
  /\ UNCHANGED getResult

InitConc ==
  /\ log = <<>>
  /\ keyDir = EmptyMap
  /\ pc = "idle"
  /\ frame = NoFrame
  /\ getResult = Hidden
  /\ hist = <<>>
  /\ callers = [c \in Callers |-> [at |-> "ready", turn |-> 0]]

\* up to MaxPrefix form operations, then the two callers in either order
NextConc ==
  \/ Len(hist) < MaxPrefix /\ FormPutSubmit
  \/ FormPutFinish
  \/ Len(hist) < MaxPrefix /\ FormDeleteSubmit
  \/ FormDeleteFinish
  \/ \E c \in Callers : CallerBegin(c)
  \/ \E c \in Callers : CallerFinish(c)

SpecConc == InitConc /\ [][NextConc]_vars

\* ------------------------------------------------- vocabulary of the claims
\* the keys the handlers can pass to the store
StoreKeys == { Trim(t) : t \in KeyTexts } \ { <<>> }

\* 0-based positions of the records of key k
PositionsOf(l, k) == { p \in 0..(Len(l) - 1) : LogAt(l, p).key = k }

\* the highest position of a record of key k (only where one exists)
LastPositionOf(l, k) ==
  CHOOSE p \in PositionsOf(l, k) : \A q \in PositionsOf(l, k) : q <= p

\* the reference key -> value map, read off the calls made: the value of the
\* last put of k, null when the last call on k is a delete or there is none
RECURSIVE RefGet(_, _)
RefGet(h, k) ==
  IF h = <<>> THEN Null
  ELSE LET last == h[Len(h)] IN
       IF last.key = k
       THEN (IF last.op = "put" THEN last.value ELSE Null)
       ELSE RefGet(SubSeq(h, 1, Len(h) - 1), k)

LastCall == hist[Len(hist)]

\* ----------------------------------------------------------------- claims
\* C1: between operations, a key has a keyDir entry exactly when the log
\* holds a record of that key and the latest such record is not a tombstone.
IndexLogConsistency ==
  pc = "idle" =>
    \A k \in StoreKeys :
      MapHas(keyDir, k) <=>
        /\ PositionsOf(log, k) # {}
        /\ ~LogAt(log, LastPositionOf(log, k)).isTombstone

\* C1 witness: one key is live while another key's latest record is a
\* tombstone that follows an earlier record of that key.
IndexLogConsistencyWitness ==
  /\ pc = "idle"
  /\ \E k \in StoreKeys :
       /\ MapHas(keyDir, k)
       /\ Cardinality(PositionsOf(log, k)) = 1
  /\ \E k \in StoreKeys :
       /\ ~MapHas(keyDir, k)
       /\ Cardinality(PositionsOf(log, k)) = 2
       /\ LogAt(log, LastPositionOf(log, k)).isTombstone

\* C2: between operations, get(k) equals the reference map's answer for
\* every key.
GetMatchesReference ==
  pc = "idle" =>
    \A k \in StoreKeys : StoreGet(log, keyDir, k) = RefGet(hist, k)

\* C2 witness: a key was put, deleted and put again while the other key was
\* never touched; get answers the second value for one and null for the other.
GetMatchesReferenceWitness ==
  /\ pc = "idle"
  /\ Len(hist) = 3
  /\ hist[1].op = "put" /\ hist[2].op = "delete" /\ hist[3].op = "put"
  /\ hist[1].key = hist[2].key /\ hist[2].key = hist[3].key
  /\ hist[1].value # hist[3].value
  /\ StoreGet(log, keyDir, hist[3].key) = hist[3].value
  /\ \E k \in StoreKeys : k # hist[3].key /\ StoreGet(log, keyDir, k) = Null

\* C3: once put(k, v) has returned, get(k) is exactly v.
PutThenGet ==
  (pc = "idle" /\ hist # <<>> /\ LastCall.op = "put") =>
    StoreGet(log, keyDir, LastCall.key) = LastCall.value

\* C3 witness: put(k, v1); put(k, v2) with different values has returned and
\* get(k) is v2.
PutThenGetWitness ==
  /\ pc = "idle"
  /\ Len(hist) >= 2
  /\ LastCall.op = "put"
  /\ hist[Len(hist) - 1].op = "put"
  /\ hist[Len(hist) - 1].key = LastCall.key
  /\ hist[Len(hist) - 1].value # LastCall.value
  /\ StoreGet(log, keyDir, LastCall.key) = LastCall.value

\* C4: once delete(k) has returned, get(k) is null.
DeleteThenNotFound ==
  (pc = "idle" /\ hist # <<>> /\ LastCall.op = "delete") =>
    StoreGet(log, keyDir, LastCall.key) = Null

\* C4 witness: delete(k) has returned for a key that was live just before.
DeleteThenNotFoundWitness ==
  /\ pc = "idle"
  /\ Len(hist) >= 2
  /\ LastCall.op = "delete"
  /\ hist[Len(hist) - 1] \in
       { [op |-> "put", key |-> LastCall.key, value |-> Str(Trim(t))] :
           t \in ValueTexts }
  /\ StoreGet(log, keyDir, LastCall.key) = Null

\* C5: every put call and every delete call lengthens the log by exactly one
\* record, and no other step changes the log's length.
LogGrowsByOne ==
  [][ IF Len(hist') = Len(hist) + 1
      THEN Len(log') = Len(log) + 1
      ELSE Len(log') = Len(log) ]_vars

\* C5 witness: a delete of a key that never had an entry has returned after
\* a put of another key, and the log holds one record per call.
LogGrowsByOneWitness ==
  /\ pc = "idle"
  /\ Len(hist) = 2
  /\ hist[1].op = "put"
  /\ hist[2].op = "delete"
  /\ hist[2].key # hist[1].key
  /\ Len(log) = 2

\* C6: no step modifies, removes or moves a record the log already holds.
RecordsImmutable ==
  [][ \A p \in 0..(Len(log) - 1) :
        InRange(log', p) /\ LogAt(log', p) = LogAt(log, p) ]_vars

\* C6 witness: the log still holds, at positions 0 and 1, a superseded
\* record and the tombstone that followed it, under a later put of the key.
RecordsImmutableWitness ==
  /\ pc = "idle"
  /\ Len(log) = 3
  /\ LogAt(log, 0).key = LogAt(log, 2).key
  /\ LogAt(log, 1).key = LogAt(log, 2).key
  /\ ~LogAt(log, 0).isTombstone
  /\ LogAt(log, 1).isTombstone
  /\ ~LogAt(log, 2).isTombstone
  /\ keyDir[LogAt(log, 2).key].valuePos = 2

\* C7: in every state, also between the push and the keyDir update, every
\* keyDir entry points inside the log at a live record of its own key, and
\* get neither reads outside the log nor answers a tombstone's payload.
NoDesync ==
  /\ \A k \in DOMAIN keyDir :
       /\ InRange(log, keyDir[k].valuePos)
       /\ LogAt(log, keyDir[k].valuePos).key = k
       /\ ~LogAt(log, keyDir[k].valuePos).isTombstone
  /\ \A k \in StoreKeys : StoreGet(log, keyDir, k) # TypeError

\* C7 witness: put has pushed the new record of a key that is live, and has
\* not yet updated the keyDir, which still points at the older record.
NoDesyncWitness ==
  /\ pc = "putSet"
  /\ MapHas(keyDir, frame.key)
  /\ keyDir[frame.key].valuePos < frame.offset
  /\ frame.offset = Len(log) - 1

\* C8: every key starts Absent; the keyDir update of put(k) leaves k Live,
\* that of delete(k) leaves k Absent, and no step changes any other key.
KeyStateMachine ==
  /\ \A k \in StoreKeys : ~MapHas(keyDir, k)
  /\ [][ \A k \in StoreKeys :
           IF pc = "putSet" /\ frame.key = k
           THEN pc' = "idle" /\ MapHas(keyDir', k)
           ELSE IF pc = "deleteRemove" /\ frame.key = k
           THEN pc' = "idle" /\ ~MapHas(keyDir', k)
           ELSE MapHas(keyDir', k) <=> MapHas(keyDir, k) ]_vars

\* C8 witness: one key went Absent, Live, Live, Absent.
KeyStateMachineWitness ==
  /\ pc = "idle"
  /\ Len(hist) = 3
  /\ hist[1].op = "put" /\ hist[2].op = "put" /\ hist[3].op = "delete"
  /\ hist[1].key = hist[2].key /\ hist[2].key = hist[3].key
  /\ ~MapHas(keyDir, hist[3].key)

\* C9: delete of a key without a keyDir entry runs to its end, appends one
\* tombstone record of that key and leaves the keyDir as it was.
DeleteAbsentLegal ==
  [][ /\ ( /\ Len(hist') = Len(hist) + 1
           /\ hist'[Len(hist')].op = "delete"
           /\ ~MapHas(keyDir, hist'[Len(hist')].key) )
         => /\ Len(log') = Len(log) + 1
            /\ SubSeq(log', 1, Len(log)) = log
            /\ log'[Len(log')].key = hist'[Len(hist')].key
            /\ log'[Len(log')].isTombstone
            /\ keyDir' = keyDir
      /\ (pc = "deleteRemove" /\ ~MapHas(keyDir, frame.key))
         => /\ pc' = "idle"
            /\ log' = log
            /\ keyDir' = keyDir ]_vars

\* C9 witness: delete of a key that has no entry has returned while another
\* key is live; the last record is the tombstone of the deleted key.
DeleteAbsentLegalWitness ==
  /\ pc = "idle"
  /\ hist # <<>>
  /\ LastCall.op = "delete"
  /\ \A i \in 1..(Len(hist) - 1) : hist[i].key # LastCall.key
  /\ log[Len(log)].key = LastCall.key
  /\ log[Len(log)].isTombstone
  /\ keyDir # EmptyMap

\* C10: when both callers' puts of "x" are done, the log's last two records
\* are theirs in order of completion, the keyDir entry of "x" points at the
\* later one, and get("x") is the value of the put that completed last.
ConcurrentPutsLastWins ==
  (\A c \in Callers : callers[c].at = "done") =>
    \E first, last \in Callers :
      /\ callers[first].turn = 1
      /\ callers[last].turn = 2
      /\ Len(log) >= 2
      /\ LogAt(log, Len(log) - 2).key = CallerKey
      /\ LogAt(log, Len(log) - 2).value = CallerValue(first)
      /\ ~LogAt(log, Len(log) - 2).isTombstone
      /\ LogAt(log, Len(log) - 1).key = CallerKey
      /\ LogAt(log, Len(log) - 1).value = CallerValue(last)
      /\ ~LogAt(log, Len(log) - 1).isTombstone
      /\ MapHas(keyDir, CallerKey)
      /\ keyDir[CallerKey].valuePos = Len(log) - 1
      /\ StoreGet(log, keyDir, CallerKey) = CallerValue(last)

\* C10 witness: both puts are done, caller 2 first and caller 1 last, on a
\* store where "x" was live before; get("x") is caller 1's value.
ConcurrentPutsLastWinsWitness ==
  /\ \A c \in Callers : callers[c].at = "done"
  /\ callers[2].turn = 1
  /\ callers[1].turn = 2
  /\ Len(log) = 3
  /\ LogAt(log, 0).key = CallerKey
  /\ ~LogAt(log, 0).isTombstone
  /\ StoreGet(log, keyDir, CallerKey) = CallerValue(1)

\* C11: between operations, the keyDir entry of a key holds the highest log
\* position of a record of that key, never a superseded record's position.
LatestWinsOnPosition ==
  pc = "idle" =>
    \A k \in DOMAIN keyDir :
      /\ PositionsOf(log, k) # {}
      /\ keyDir[k].valuePos = LastPositionOf(log, k)

\* C11 witness: a key with two put records is live and its entry points at
\* the second one, while a record of another key lies in between.
LatestWinsOnPositionWitness ==
  /\ pc = "idle"
  /\ Len(log) = 3
  /\ LogAt(log, 0).key = LogAt(log, 2).key
  /\ LogAt(log, 1).key # LogAt(log, 2).key
  /\ ~LogAt(log, 0).isTombstone
  /\ ~LogAt(log, 2).isTombstone
  /\ MapHas(keyDir, LogAt(log, 2).key)
  /\ keyDir[LogAt(log, 2).key].valuePos = 2

\* C11 as stated, for every state: it fails while a put or delete of a live
\* key is between its push and its keyDir update.
LatestWinsOnPositionAlways ==
  \A k \in DOMAIN keyDir :
    /\ PositionsOf(log, k) # {}
    /\ keyDir[k].valuePos = LastPositionOf(log, k)

\* C12: the offset put takes is the log's length before its push, lies above
\* every position in the log before the push and above every position the
\* keyDir holds, and is the position the keyDir update records for the key.
PutPositionIsNext ==
  [][ /\ (Len(hist') = Len(hist) + 1 /\ hist'[Len(hist')].op = "put")
         => /\ frame'.offset = Len(log)
            /\ \A p \in 0..(Len(log) - 1) : p < frame'.offset
            /\ \A k \in DOMAIN keyDir : keyDir[k].valuePos < frame'.offset
            /\ InRange(log', frame'.offset)
            /\ LogAt(log', frame'.offset) = frame'.entry
      /\ pc = "putSet"
         => /\ MapHas(keyDir', frame.key)
            /\ keyDir'[frame.key].valuePos = frame.offset
            /\ frame.offset = Len(log) - 1 ]_vars

\* C12 witness: a put that followed a put and a tombstone has returned; its
\* key's entry holds position 2, the log's length before that put.
PutPositionIsNextWitness ==
  /\ pc = "idle"
  /\ Len(hist) = 3
  /\ hist[1].op = "put"
  /\ hist[2].op = "delete"
  /\ hist[3].op = "put"
  /\ hist[3].key # hist[2].key
  /\ keyDir[hist[3].key].valuePos = 2

\* the length of a string value (value.length)
ValueLength(value) == Len(value.chars)

\* C13 as stated: every keyDir entry's valueSize is the length of the value
\* of the record at its position.  The code stores the length of the JSON
\* text of the value, which counts the quotes and the escapes.
ValueSizeIsValueLength ==
  \A k \in DOMAIN keyDir :
    LET record == LogAt(log, keyDir[k].valuePos) IN
      record.value.type = "string" =>
        keyDir[k].valueSize = ValueLength(record.value)

\* C14 as stated: timestamps never decrease along the log.  Each record
\* takes its own reading of the wall clock, which can be set back.
TimestampsNonDecreasing ==
  \A i, j \in 0..(Len(log) - 1) :
    i < j => LogAt(log, i).timestamp <= LogAt(log, j).timestamp

\* C15: a record is a tombstone exactly when a delete call appended it; a
\* put of the sentinel text appends a live record, leaves the key with an
\* entry, and get answers the sentinel text as the value.
TombstoneIsStructural ==
  /\ Len(log) = Len(hist)
  /\ \A i \in 1..Len(log) :
       /\ log[i].key = hist[i].key
       /\ log[i].isTombstone <=> hist[i].op = "delete"
  /\ ( /\ pc = "idle"
       /\ hist # <<>>
       /\ LastCall.op = "put"
       /\ LastCall.value = Str(DELETE_TOMBSTONE) )
     => /\ ~log[Len(log)].isTombstone
        /\ MapHas(keyDir, LastCall.key)
        /\ StoreGet(log, keyDir, LastCall.key) = Str(DELETE_TOMBSTONE)

\* C15 witness: put(k, "DELETE_TOMBSTONE") has returned right after a
\* delete(k); both records carry the same payload, only the first is a
\* tombstone, and k is live.
TombstoneIsStructuralWitness ==
  /\ pc = "idle"
  /\ Len(hist) = 2
  /\ hist[1].op = "delete"
  /\ hist[2] = [op |-> "put", key |-> hist[1].key,
                value |-> Str(DELETE_TOMBSTONE)]
  /\ log[1].value = log[2].value
  /\ log[1].isTombstone
  /\ ~log[2].isTombstone
  /\ MapHas(keyDir, hist[2].key)

\* C16: get(k) is null exactly when the keyDir has no entry for k.
NotFoundUnambiguous ==
  \A k \in StoreKeys :
    StoreGet(log, keyDir, k) = Null <=> ~MapHas(keyDir, k)

\* C16 witness: one key is live with the sentinel text as its value and get
\* answers that text, while the other key was deleted and get answers null.
NotFoundUnambiguousWitness ==
  /\ pc = "idle"
  /\ \E k \in StoreKeys :
       /\ MapHas(keyDir, k)
       /\ StoreGet(log, keyDir, k) = Str(DELETE_TOMBSTONE)
  /\ \E k \in StoreKeys :
       /\ ~MapHas(keyDir, k)
       /\ PositionsOf(log, k) # {}
       /\ StoreGet(log, keyDir, k) = Null

\* C17: a get, for a key with or without an entry, leaves the log and the
\* keyDir exactly as they were.  A get is the only step that writes the
\* result box and the only step from idle to idle.
GetIsReadOnly ==
  [][ (getResult' # getResult \/ (pc = "idle" /\ pc' = "idle"))
        => /\ log' = log
           /\ keyDir' = keyDir ]_vars

\* C17 witness: the result box shows the value get found for a live key
\* whose entry and record are still in place, after an earlier delete of
\* another key left its tombstone in the log.
GetIsReadOnlyWitness ==
  /\ pc = "idle"
  /\ getResult.shown = "value"
  /\ Len(log) = 2
  /\ LogAt(log, 0).isTombstone
  /\ MapHas(keyDir, LogAt(log, 1).key)
  /\ keyDir[LogAt(log, 1).key].valuePos = 1
  /\ LogAt(log, 1).value = getResult.value

\* C18: no step of put(k, v) or delete(k) changes the keyDir entry of another
\* key (presence, position, valueSize, timestamp), nor what get answers
\* for it.
KeyIsolation ==
  [][ \A k \in StoreKeys :
        LET opKey == IF pc = "idle" THEN frame'.key ELSE frame.key IN
          (Len(hist') = Len(hist) + 1 \/ pc # "idle") /\ opKey # k
            => /\ MapHas(keyDir', k) <=> MapHas(keyDir, k)
               /\ MapHas(keyDir, k) => keyDir'[k] = keyDir[k]
               /\ StoreGet(log', keyDir', k) = StoreGet(log, keyDir, k) ]_vars

\* C18 witness: a put and then a delete of one key have returned while the
\* other key, put first, still has the entry that put gave it.
KeyIsolationWitness ==
  /\ pc = "idle"
  /\ Len(hist) = 3
  /\ hist[1].op = "put"
  /\ hist[2].op = "put"
  /\ hist[3].op = "delete"
  /\ hist[2].key = hist[3].key
  /\ hist[1].key # hist[2].key
  /\ MapHas(keyDir, hist[1].key)
  /\ keyDir[hist[1].key].valuePos = 0
  /\ StoreGet(log, keyDir, hist[1].key) = hist[1].value

\* C19: every keyDir entry carries the timestamp of the record at its
\* position.
EntryTimestampIsRecordTimestamp ==
  \A k \in DOMAIN keyDir :
    /\ InRange(log, keyDir[k].valuePos)
    /\ keyDir[k].timestamp = LogAt(log, keyDir[k].valuePos).timestamp

\* C19 witness: two keys are live with records stamped at different
\* instants, the later record carrying the earlier instant.
EntryTimestampIsRecordTimestampWitness ==
  /\ pc = "idle"
  /\ Len(log) = 2
  /\ LogAt(log, 0).key # LogAt(log, 1).key
  /\ LogAt(log, 0).timestamp > LogAt(log, 1).timestamp
  /\ MapHas(keyDir, LogAt(log, 0).key)
  /\ MapHas(keyDir, LogAt(log, 1).key)
  /\ keyDir[LogAt(log, 0).key].timestamp # keyDir[LogAt(log, 1).key].timestamp
====
